---- MODULE Spec2Model ----
(***************************************************************************)
(* Model of rexpro/connectors/base.py: RexProBaseConnection (session,      *)
(* transaction, retry and blacklist state machine) and                     *)
(* RexProBaseConnectionPool (idle queue, scoped acquisition, shutdown).    *)
(*                                                                         *)
(* A caller runs a stack of frames, one per method being executed; a step   *)
(* of a caller runs the frame on top up to its next call or to its end.    *)
(* What one step does to a Connection is an operator that maps the         *)
(* Connection record to the SET of results the code can produce, one per   *)
(* outcome of the socket and of the server (connect fails, a send or a     *)
(* receive faults, the server answers with an ErrorResponse, random.choice *)
(* draws one endpoint or another).  A result is a record                   *)
(*   [c |-> the Connection afterwards, exc |-> the exception raised or     *)
(*    NoExc, wire |-> the messages handed to send_message, in order, ...]. *)
(***************************************************************************)
EXTENDS Integers, Sequences, FiniteSets, TLC

\* src/rexpro/connectors/base.py:11
CONNECTION_ATTEMPTS == 3

\* Bounds of the model.
MaxSessions == 2    \* sessions the server grants one Connection; later handshakes fail
MaxBodyExec == 1    \* execute() calls made by the body of a transaction scope
NumCallers == 2     \* concurrent callers of the pool
MaxConns == 2       \* Connections the pool constructs

\* Configured endpoints: a scalar, or a list of candidates.
ScalarHost == "h1"
HostList == <<"h1", "h2">>
ScalarPort == 1
PortList == <<1>>
NoHost == "None"
NoPort == 0
None == 0

SeqToSet(s) == {s[i] : i \in DOMAIN s}

\* ------------------------------------------------------------------ faults
NoExc == [kind |-> "none", src |-> "none"]
Exc(k, s) == [kind |-> k, src |-> s]

\* ---------------------------------------------------------------- messages
SessionRequest == [s |-> "open", t |-> "session", tx |-> FALSE]
KillRequest == [s |-> "kill", t |-> "session", tx |-> FALSE]
ScriptRequest(script, tx) == [s |-> script, t |-> "script", tx |-> tx]

\* ------------------------------------------------------------------ sockets
NoSocket == [id |-> 0, st |-> "none"]
\* SOCKET_CLASS(): a new socket object, not yet connected
NewSocket(c) == [id |-> c.conn.id + 1, st |-> "new"]

\* send_message + get_response: what the socket and the server can answer.
\* Only a connected socket can carry a request and its response.
RoundTrip(c) == IF c.conn.st = "connected" THEN {"ok", "error", "fault"} ELSE {"fault"}

Result(c, e, w) == [c |-> c, exc |-> e, wire |-> w]

\* -------------------------------------------------- RexProBaseConnection
\* __init__, before it calls open()
NewConnection(hostIsList, portIsList) ==
    [conn |-> NoSocket, hostIsList |-> hostIsList, portIsList |-> portIsList,
     in_transaction |-> FALSE, session_key |-> None,
     opened |-> FALSE, port_blacklist |-> {}, host_blacklist |-> {},
     current_host |-> NoHost, current_port |-> NoPort, sessions |-> 0]

\* _open_session: the handshake
open_session(c) ==
    { IF o = "ok"
        THEN Result([c EXCEPT !.session_key = c.sessions + 1,
                              !.sessions = c.sessions + 1], NoExc, <<SessionRequest>>)
      ELSE IF o = "error"
        THEN Result(c, Exc("ServerFault", "handshake"), <<SessionRequest>>)
      ELSE Result(c, Exc("SocketFault", "handshake"), <<SessionRequest>>)
      : o \in IF c.sessions < MaxSessions THEN RoundTrip(c) ELSE RoundTrip(c) \ {"ok"} }

\* connection_failed with a slip: a blacklist that covers every candidate is
\* kept
connection_failed_uncleared(c) ==
    LET pb == c.port_blacklist \cup {c.current_port}
        hb == c.host_blacklist \cup {c.current_host}
        c1 == [c EXCEPT !.port_blacklist = pb, !.host_blacklist = hb]
    IN  IF ~c.portIsList
          THEN Result(c1, Exc("TypeError", "connection_failed"), <<>>)
        ELSE Result(c1, NoExc, <<>>)

\* connection_failed: len(self.host) of a scalar host is the length of the
\* string; len(self.port) of a scalar (int) port raises TypeError.
connection_failed(c) ==
    LET pb == c.port_blacklist \cup {c.current_port}
        hb == c.host_blacklist \cup {c.current_host}
        hostLen == IF c.hostIsList THEN Len(HostList) ELSE Len(ScalarHost)
        c1 == [c EXCEPT !.port_blacklist = pb,
                        !.host_blacklist = IF Cardinality(hb) >= hostLen THEN {} ELSE hb]
    IN  IF ~c.portIsList
          THEN Result(c1, Exc("TypeError", "connection_failed"), <<>>)
        ELSE IF Cardinality(pb) >= Len(PortList)
          THEN Result([c1 EXCEPT !.port_blacklist = {}], NoExc, <<>>)
        ELSE Result(c1, NoExc, <<>>)

\* the host draw with a slip: the blacklist is not subtracted
HostChoicesAll(c) == IF c.hostIsList THEN SeqToSet(HostList) ELSE {ScalarHost}

\* open(soft): lines 319-329, the endpoint drawn for a new socket
HostChoices(c) == IF c.hostIsList THEN SeqToSet(HostList) \ c.host_blacklist ELSE {ScalarHost}
PortChoices(c) == IF c.portIsList THEN SeqToSet(PortList) \ c.port_blacklist ELSE {ScalarPort}

\* How one pass of a loop ends: the method returns, raises exc, or goes on to
\* the next pass (continue); what tells what happened in the pass.
Pass(c, e, go, what) == [c |-> c, exc |-> e, go |-> go, what |-> what]

\* the handshake with a slip: the opened flag is not set
open_handshake_unopened(c, i) ==
    LET c1 == [c EXCEPT !.in_transaction = FALSE, !.session_key = None]
    IN  { IF r.exc = NoExc
            THEN Pass(r.c, NoExc, "return", "session")
          ELSE LET f == connection_failed(r.c)
               IN  IF f.exc # NoExc THEN Pass(f.c, f.exc, "raise", "handshake failed")
                   ELSE IF i >= CONNECTION_ATTEMPTS - 1
                     THEN Pass(f.c, r.exc, "raise", "handshake failed")
                   ELSE Pass(f.c, NoExc, "continue", "handshake failed")
          : r \in open_session(c1) }

\* open(soft): lines 342-357, the handshake of attempt i (0-based) and its handler
open_handshake(c, i) ==
    LET c1 == [c EXCEPT !.in_transaction = FALSE, !.session_key = None, !.opened = TRUE]
    IN  { IF r.exc = NoExc
            THEN Pass(r.c, NoExc, "return", "session")
          ELSE LET f == connection_failed(r.c)
               IN  IF f.exc # NoExc THEN Pass(f.c, f.exc, "raise", "handshake failed")
                   ELSE IF i >= CONNECTION_ATTEMPTS - 1
                     THEN Pass(f.c, r.exc, "raise", "handshake failed")
                   ELSE Pass(f.c, NoExc, "continue", "handshake failed")
          : r \in open_session(c1) }

\* open(soft): lines 313-340, the new socket, the endpoint draw and the connect
open_connect(c, i) ==
    LET c0 == [c EXCEPT !.conn = NewSocket(c)]
    IN  IF HostChoices(c0) = {}
          THEN {Pass(c0, Exc("IndexError", "open"), "raise", "no endpoint")}
        ELSE UNION {
          LET c1 == [c0 EXCEPT !.current_host = h]
          IN  IF PortChoices(c1) = {}
                THEN {Pass(c1, Exc("IndexError", "open"), "raise", "no endpoint")}
              ELSE UNION {
                LET c2 == [c1 EXCEPT !.current_port = p]
                    f == connection_failed(c2)
                IN  \* connect succeeds
                    open_handshake([c2 EXCEPT !.conn.st = "connected"], i)
                    \cup
                    \* connect raises: connection_failed(), then continue
                    { IF f.exc # NoExc THEN Pass(f.c, f.exc, "raise", "connect failed")
                      ELSE Pass(f.c, NoExc, "continue", "connect failed") }
                : p \in PortChoices(c1) }
          : h \in HostChoices(c0) }

\* open(soft): one pass of the loop over range(CONNECTION_ATTEMPTS).  A loop
\* that runs out of attempts falls off its end: open() returns None.
open_attempt(c, soft, i) ==
    IF i >= CONNECTION_ATTEMPTS THEN {Pass(c, NoExc, "return", "exhausted")}
    ELSE IF ~soft THEN open_connect(c, i)
    ELSE open_handshake(c, i)

\* close(soft) with a slip: the opened flag is cleared whatever soft is
close_always_hard(c, soft) ==
    { IF o = "fault"
        THEN Result(c, Exc("SocketFault", "close"), <<KillRequest>>)
      ELSE LET c1 == [c EXCEPT !.opened = FALSE,
                               !.session_key = None,
                               !.in_transaction = FALSE]
           IN  IF o = "error"
                 THEN Result(c1, Exc("ServerFault", "close"), <<KillRequest>>)
               ELSE Result(c1, NoExc, <<KillRequest>>)
      : o \in RoundTrip(c) }

\* close(soft)
close(c, soft) ==
    { IF o = "fault"
        THEN Result(c, Exc("SocketFault", "close"), <<KillRequest>>)
      ELSE LET c1 == [c EXCEPT !.opened = IF soft THEN c.opened ELSE FALSE,
                               !.session_key = None,
                               !.in_transaction = FALSE]
           IN  IF o = "error"
                 THEN Result(c1, Exc("ServerFault", "close"), <<KillRequest>>)
               ELSE Result(c1, NoExc, <<KillRequest>>)
      : o \in RoundTrip(c) }

\* the transaction flag with a slip: in_transaction is not looked at
request_transaction_unforced(c, transaction) == transaction

\* execute: lines 427-428, the transaction flag of the request.  The local
\* variable keeps the forced value for the later attempts of the same call.
request_transaction(c, transaction) == IF c.in_transaction THEN FALSE ELSE transaction

\* execute: lines 447-457, the handler of the failed attempt i (0-based) up to
\* self.close(); e is the fault of the attempt.  "reopen": self.open() is next.
execute_failed(c, i, e) ==
    LET f == connection_failed(c)
    IN  IF f.exc # NoExc THEN {Pass(f.c, f.exc, "raise", "attempt failed")}
        ELSE IF i >= CONNECTION_ATTEMPTS - 1 THEN {Pass(f.c, e, "raise", "attempt failed")}
        ELSE { IF cl.exc # NoExc THEN Pass(cl.c, cl.exc, "raise", "close failed")
               ELSE Pass(cl.c, NoExc, "reopen", "attempt failed")
               : cl \in close(f.c, FALSE) }

\* execute: lines 426-457, one pass of the loop over range(CONNECTION_ATTEMPTS)
execute_attempt(c, i) ==
    UNION { IF o = "ok" THEN {Pass(c, NoExc, "return", "results")}
            ELSE IF o = "error" THEN execute_failed(c, i, Exc("ScriptFault", "execute"))
            ELSE execute_failed(c, i, Exc("SocketFault", "execute"))
            : o \in RoundTrip(c) }

StopFailure == "g.stopTransaction(FAILURE)"
StopSuccess == "g.stopTransaction(SUCCESS)"
UserScript == "script"

\* _select: the readiness poll of the backend
Poll == {"ready", "not ready"}
\* socket.shutdown: raises on a socket that is not connected
Shutdown(c) == IF c.conn.st = "connected" THEN {"ok", "fault"} ELSE {"fault"}
\* socket.connect in test_connection, given (self.host, self.port) as configured:
\* a candidate list is no address, and connect raises TypeError
Reconnect(c) == IF c.hostIsList \/ c.portIsList THEN {"fault"} ELSE {"ok", "fault"}

\* A result of test_connection also tells the reconnect steps it took.
Tested(c, e, w, n) == [c |-> c, exc |-> e, wire |-> w, steps |-> n]

RECURSIVE test_reconnect(_, _, _)

\* the poll after a reconnect with a slip: test_connection returns also when
\* the handshake failed
test_reopen_regardless(c, n, w) ==
    LET c1 == [c EXCEPT !.in_transaction = FALSE, !.session_key = None]
    IN  { Tested(r.c, NoExc, w \o r.wire, n) : r \in open_session(c1) }

\* test_connection: lines 372-380, the poll after a reconnect reported ready
test_reopen(c, n, w) ==
    LET c1 == [c EXCEPT !.in_transaction = FALSE, !.session_key = None]
    IN  UNION { IF r.exc = NoExc THEN {Tested(r.c, NoExc, w \o r.wire, n)}
                ELSE test_reconnect(r.c, n + 1, w \o r.wire)
                : r \in open_session(c1) }

\* test_connection: lines 363-385, the reconnect steps from the n-th timeout
\* (1..3: 2, 4, 8 seconds) on; every exception of a step is swallowed
test_reconnect(c, n, w) ==
    IF n > 3 THEN {Tested(c, Exc("ConnectionFault", "test_connection"), w, 3)}
    ELSE UNION {
      IF sd = "fault" THEN test_reconnect(c, n + 1, w)
      ELSE LET c1 == [c EXCEPT !.conn.st = "closed"]
           IN  UNION {
                 IF cn = "fault" THEN test_reconnect(c1, n + 1, w)
                 ELSE LET c2 == [c1 EXCEPT !.conn.st = "connected"]
                      IN  UNION { IF p = "ready" THEN test_reopen(c2, n, w)
                                  ELSE test_reconnect(c2, n + 1, w)
                                  : p \in Poll }
                 : cn \in Reconnect(c1) }
      : sd \in Shutdown(c) }

test_connection(c) ==
    UNION { IF p = "ready" THEN {Tested(c, NoExc, <<>>, 0)} ELSE test_reconnect(c, 1, <<>>)
            : p \in Poll }

\* The caller's logic inside a transaction scope: n calls of
\* execute(script, transaction=True), then it returns or raises; a fault of
\* an execute call is not caught by the body.
Bodies == [n : 0..MaxBodyExec, raises : BOOLEAN]
BodyFault == Exc("BodyFault", "body")

\* ------------------------------------------------------------------- state
VARIABLES
    cfg,      \* the configured host and port: each a scalar or a candidate list
    conns,    \* the Connection objects, by identity
    made,     \* the identities of the Connections constructed so far
    pool,     \* the idle queue of the pool
    callers   \* the callers: the stack of frames each runs, the outcome of the
              \* call that just ended (ret), the Connection it holds

vars == <<cfg, conns, made, pool, callers>>

ConnIds == 1..MaxConns
Callers == 1..NumCallers

\* Socket objects that are no longer referenced cannot be observed: between
\* steps the socket a Connection holds is renamed 1 (0: no socket).
Norm(c) == [c EXCEPT !.conn.id = IF @ = 0 THEN 0 ELSE 1]

\* A Connection object that nothing references any more cannot be observed:
\* its fields are dropped.
Unreferenced == NewConnection(cfg.hostIsList, cfg.portIsList)

NoRet == [exc |-> NoExc, val |-> 0, by |-> [f |-> "none"]]
Idle == [stack |-> <<>>, ret |-> NoRet, held |-> 0]

Init ==
    /\ cfg \in [hostIsList : BOOLEAN, portIsList : BOOLEAN]
    /\ conns = [k \in ConnIds |-> NewConnection(cfg.hostIsList, cfg.portIsList)]
    /\ made = {}
    /\ pool = <<>>
    /\ callers = [p \in Callers |-> Idle]

\* ------------------------------------------------------------------ frames
Stack(p) == callers[p].stack
Top(p) == Stack(p)[Len(Stack(p))]
Ret(p) == callers[p].ret
\* caller p is inside method f, about to run it on: at its start or after a
\* pass of its loop (Running), or back from the call it made (Resumed)
Running(p, f, pc) == Len(Stack(p)) > 0 /\ Top(p).f = f /\ Top(p).pc = pc /\ Ret(p) = NoRet
Resumed(p, f, pc) == Len(Stack(p)) > 0 /\ Top(p).f = f /\ Top(p).pc = pc /\ Ret(p) # NoRet
\* caller p is between calls
Ready(p) == Stack(p) = <<>> /\ Ret(p) = NoRet

\* the frame on top goes on as fr
Goto(p, fr) ==
    [callers[p] EXCEPT !.stack = [@ EXCEPT ![Len(@)] = fr], !.ret = NoRet]
\* the frame on top, now fr, calls the method whose frame is callee
Invoke(p, fr, callee) ==
    [callers[p] EXCEPT !.stack = Append([@ EXCEPT ![Len(@)] = fr], callee), !.ret = NoRet]
\* the frame on top ends as fr: it returns val (exc = NoExc) or raises exc
Finish(p, fr, exc, val) ==
    [callers[p] EXCEPT !.stack = SubSeq(@, 1, Len(@) - 1),
                       !.ret = [exc |-> exc, val |-> val, by |-> fr]]
\* a call by a caller that is between calls
Enter(p, callee) == [callers[p] EXCEPT !.stack = <<callee>>]

\* The fields of a record are written in the order in which TLC keeps them.
InitFrame(k) == [k |-> k, f |-> "__init__", pc |-> "fields"]
OpenFrame(k, soft) ==
    [i |-> 0, k |-> k, f |-> "open", soft |-> soft, pc |-> "loop", arg |-> soft, log |-> <<>>]
ExecuteFrame(k, script, transaction) ==
    [i |-> 0, k |-> k, script |-> script, f |-> "execute",
     transaction |-> transaction, pc |-> "loop", arg |-> transaction,
     entry |-> conns[k].in_transaction, sent |-> <<>>]
OpenTransactionFrame(k) ==
    [k |-> k, f |-> "open_transaction", pc |-> "check", sent |-> <<>>]
CloseTransactionFrame(k, success) ==
    [k |-> k, f |-> "close_transaction", pc |-> "check", sent |-> <<>>, success |-> success]
\* body: how the caller's logic ended (NoBody: not yet); calls: the
\* open_transaction and close_transaction calls the scope made, with their outcome
NoBody == Exc("none", "not ended")
TransactionFrame(k, body) ==
    [k |-> k, f |-> "transaction", n |-> body.n, raises |-> body.raises, pc |-> "enter",
     body |-> NoBody, calls |-> <<>>]

\* ------------------------------------------------- RexProBaseConnection
\* __init__: lines 207-225
Construct(p) ==
    /\ Running(p, "__init__", "fields")
    /\ LET fr == Top(p) IN
         /\ conns' = [conns EXCEPT ![fr.k] = NewConnection(cfg.hostIsList, cfg.portIsList)]
         /\ callers' = [callers EXCEPT
                          ![p] = Invoke(p, [fr EXCEPT !.pc = "open"], OpenFrame(fr.k, FALSE))]
    /\ UNCHANGED <<cfg, made, pool>>

\* __init__ after self.open(): the object exists only if open() returned
Constructed(p) ==
    /\ Resumed(p, "__init__", "open")
    /\ LET fr == Top(p) IN
         IF Ret(p).exc # NoExc
           THEN /\ conns' = [conns EXCEPT
                               ![fr.k] = NewConnection(cfg.hostIsList, cfg.portIsList)]
                /\ callers' = [callers EXCEPT ![p] = Finish(p, fr, Ret(p).exc, 0)]
                /\ UNCHANGED made
           ELSE /\ made' = made \cup {fr.k}
                /\ callers' = [callers EXCEPT ![p] = Finish(p, fr, NoExc, fr.k)]
                /\ UNCHANGED conns
    /\ UNCHANGED <<cfg, pool>>

\* open(soft): one pass of its loop
OpenAttempt(p) ==
    /\ Running(p, "open", "loop")
    /\ LET fr == Top(p) IN
       \E r \in open_attempt(conns[fr.k], fr.soft, fr.i) :
         /\ conns' = [conns EXCEPT ![fr.k] = Norm(r.c)]
         /\ callers' = [callers EXCEPT ![p] =
              IF r.go = "continue"
                THEN Goto(p, [fr EXCEPT !.i = @ + 1, !.soft = FALSE,
                                        !.log = Append(@, r.what)])
              ELSE Finish(p, [fr EXCEPT !.log = Append(@, r.what)], r.exc, 0)]
    /\ UNCHANGED <<cfg, made, pool>>

\* execute: one pass of its loop, up to the self.open() of the handler
ExecuteAttempt(p) ==
    /\ Running(p, "execute", "loop")
    /\ LET fr == Top(p)
           tx == request_transaction(conns[fr.k], fr.transaction)
           fr1 == [fr EXCEPT !.transaction = tx,
                             !.sent = Append(@, ScriptRequest(fr.script, tx))]
       IN
       \E r \in execute_attempt(conns[fr.k], fr.i) :
         /\ conns' = [conns EXCEPT ![fr.k] = Norm(r.c)]
         /\ callers' = [callers EXCEPT ![p] =
              IF r.go = "reopen"
                THEN Invoke(p, [fr1 EXCEPT !.pc = "reopen"], OpenFrame(fr.k, FALSE))
              ELSE Finish(p, fr1, r.exc, 0)]
    /\ UNCHANGED <<cfg, made, pool>>

\* execute: line 458, back from self.open() in the handler
ExecuteReopened(p) ==
    /\ Resumed(p, "execute", "reopen")
    /\ LET fr == Top(p) IN
         callers' = [callers EXCEPT ![p] =
           IF Ret(p).exc # NoExc THEN Finish(p, fr, Ret(p).exc, 0)
           ELSE Goto(p, [fr EXCEPT !.i = @ + 1, !.pc = "loop"])]
    /\ UNCHANGED <<cfg, conns, made, pool>>

\* open_transaction with a slip: in_transaction is not checked
OpenTransactionUnchecked(p) ==
    /\ Running(p, "open_transaction", "check")
    /\ LET fr == Top(p) IN
         callers' = [callers EXCEPT ![p] =
           Invoke(p, [fr EXCEPT !.pc = "execute"],
                  ExecuteFrame(fr.k, StopFailure, FALSE))]
    /\ UNCHANGED <<cfg, conns, made, pool>>

\* open_transaction: lines 246-252
OpenTransaction(p) ==
    /\ Running(p, "open_transaction", "check")
    /\ LET fr == Top(p) IN
         callers' = [callers EXCEPT ![p] =
           IF conns[fr.k].in_transaction
             THEN Finish(p, fr, Exc("UsageFault", "open_transaction"), 0)
           ELSE Invoke(p, [fr EXCEPT !.pc = "execute"],
                       ExecuteFrame(fr.k, StopFailure, FALSE))]
    /\ UNCHANGED <<cfg, conns, made, pool>>

\* open_transaction: line 253
TransactionOpened(p) ==
    /\ Resumed(p, "open_transaction", "execute")
    /\ LET fr == [Top(p) EXCEPT !.sent = Ret(p).by.sent] IN
         IF Ret(p).exc # NoExc
           THEN /\ callers' = [callers EXCEPT ![p] = Finish(p, fr, Ret(p).exc, 0)]
                /\ UNCHANGED conns
           ELSE /\ conns' = [conns EXCEPT ![fr.k].in_transaction = TRUE]
                /\ callers' = [callers EXCEPT ![p] = Finish(p, fr, NoExc, 0)]
    /\ UNCHANGED <<cfg, made, pool>>

\* close_transaction: lines 263-269
CloseTransaction(p) ==
    /\ Running(p, "close_transaction", "check")
    /\ LET fr == Top(p) IN
         callers' = [callers EXCEPT ![p] =
           IF ~conns[fr.k].in_transaction
             THEN Finish(p, fr, Exc("UsageFault", "close_transaction"), 0)
           ELSE Invoke(p, [fr EXCEPT !.pc = "execute"],
                       ExecuteFrame(fr.k, IF fr.success THEN StopSuccess ELSE StopFailure,
                                    FALSE))]
    /\ UNCHANGED <<cfg, conns, made, pool>>

\* close_transaction: line 270
TransactionClosed(p) ==
    /\ Resumed(p, "close_transaction", "execute")
    /\ LET fr == [Top(p) EXCEPT !.sent = Ret(p).by.sent] IN
         IF Ret(p).exc # NoExc
           THEN /\ callers' = [callers EXCEPT ![p] = Finish(p, fr, Ret(p).exc, 0)]
                /\ UNCHANGED conns
           ELSE /\ conns' = [conns EXCEPT ![fr.k].in_transaction = FALSE]
                /\ callers' = [callers EXCEPT ![p] = Finish(p, fr, NoExc, 0)]
    /\ UNCHANGED <<cfg, made, pool>>

\* A call the scope made and how it ended
Call(name, arg, r) == [exc |-> r.exc, arg |-> arg, sent |-> r.by.sent, call |-> name]

\* transaction(): lines 400-401
TransactionEnter(p) ==
    /\ Running(p, "transaction", "enter")
    /\ LET fr == Top(p) IN
       \E t \in test_connection(conns[fr.k]) :
         /\ conns' = [conns EXCEPT ![fr.k] = Norm(t.c)]
         /\ callers' = [callers EXCEPT ![p] =
              IF t.exc # NoExc THEN Finish(p, fr, t.exc, 0)
              ELSE Invoke(p, [fr EXCEPT !.pc = "open_transaction"],
                          OpenTransactionFrame(fr.k))]
    /\ UNCHANGED <<cfg, made, pool>>

\* transaction(): back from open_transaction(); the yield hands over to the body
TransactionYield(p) ==
    /\ Resumed(p, "transaction", "open_transaction")
    /\ LET fr == [Top(p) EXCEPT !.calls = Append(@, Call("open_transaction", FALSE, Ret(p)))]
       IN  callers' = [callers EXCEPT ![p] =
             IF Ret(p).exc # NoExc THEN Finish(p, fr, Ret(p).exc, 0)
             ELSE Goto(p, [fr EXCEPT !.pc = "body"])]
    /\ UNCHANGED <<cfg, conns, made, pool>>

\* the body: its next execute() call, or its end; then lines 404-408
TransactionBody(p) ==
    /\ Running(p, "transaction", "body")
    /\ LET fr == Top(p) IN
         callers' = [callers EXCEPT ![p] =
           IF fr.n > 0
             THEN Invoke(p, [fr EXCEPT !.n = @ - 1, !.pc = "execute"],
                         ExecuteFrame(fr.k, UserScript, TRUE))
           ELSE IF fr.raises
             THEN Invoke(p, [fr EXCEPT !.pc = "rollback", !.body = BodyFault],
                         CloseTransactionFrame(fr.k, FALSE))
           ELSE Invoke(p, [fr EXCEPT !.pc = "commit", !.body = NoExc],
                       CloseTransactionFrame(fr.k, TRUE))]
    /\ UNCHANGED <<cfg, conns, made, pool>>

\* the body, back from execute(): a fault of execute leaves the body
TransactionBodyExecuted(p) ==
    /\ Resumed(p, "transaction", "execute")
    /\ LET fr == Top(p) IN
         callers' = [callers EXCEPT ![p] =
           IF Ret(p).exc # NoExc
             THEN Invoke(p, [fr EXCEPT !.pc = "rollback", !.body = Ret(p).exc],
                         CloseTransactionFrame(fr.k, FALSE))
           ELSE Goto(p, [fr EXCEPT !.pc = "body"])]
    /\ UNCHANGED <<cfg, conns, made, pool>>

\* transaction(): lines 405-406, back from close_transaction(False): raise
TransactionRolledBack(p) ==
    /\ Resumed(p, "transaction", "rollback")
    /\ LET fr == [Top(p) EXCEPT !.calls = Append(@, Call("close_transaction", FALSE, Ret(p)))]
       IN  callers' = [callers EXCEPT ![p] =
             Finish(p, fr, IF Ret(p).exc # NoExc THEN Ret(p).exc ELSE fr.body, 0)]
    /\ UNCHANGED <<cfg, conns, made, pool>>

\* transaction(): line 408, back from close_transaction(True)
TransactionCommitted(p) ==
    /\ Resumed(p, "transaction", "commit")
    /\ LET fr == [Top(p) EXCEPT !.calls = Append(@, Call("close_transaction", TRUE, Ret(p)))]
       IN  callers' = [callers EXCEPT ![p] = Finish(p, fr, Ret(p).exc, 0)]
    /\ UNCHANGED <<cfg, conns, made, pool>>

\* close(soft), as a call of a caller
Close(p, k, soft) ==
    /\ Ready(p)
    /\ k \in made
    /\ \E r \in close(conns[k], soft) :
         /\ conns' = [conns EXCEPT ![k] = Norm(r.c)]
         /\ callers' = [callers EXCEPT ![p].ret =
              [exc |-> r.exc, val |-> 0,
               by |-> [k |-> k, f |-> "close", soft |-> soft, sent |-> r.wire,
                       pre |-> conns[k],
                       sameSocket |-> (r.c.conn.id = conns[k].conn.id)]]]
    /\ UNCHANGED <<cfg, made, pool>>

\* test_connection(), as a call of a caller
TestConnection(p, k) ==
    /\ Ready(p)
    /\ k \in made
    /\ \E r \in test_connection(conns[k]) :
         /\ conns' = [conns EXCEPT ![k] = Norm(r.c)]
         /\ callers' = [callers EXCEPT ![p].ret =
              [exc |-> r.exc, val |-> 0,
               by |-> [k |-> k, f |-> "test_connection", steps |-> r.steps,
                       sent |-> r.wire, pre |-> conns[k]]]]
    /\ UNCHANGED <<cfg, made, pool>>

\* the steps of the methods of a Connection
ConnectionStep(p) ==
    \/ Construct(p)
    \/ Constructed(p)
    \/ OpenAttempt(p)
    \/ ExecuteAttempt(p)
    \/ ExecuteReopened(p)
    \/ OpenTransaction(p)
    \/ TransactionOpened(p)
    \/ CloseTransaction(p)
    \/ TransactionClosed(p)
    \/ TransactionEnter(p)
    \/ TransactionYield(p)
    \/ TransactionBody(p)
    \/ TransactionBodyExecuted(p)
    \/ TransactionRolledBack(p)
    \/ TransactionCommitted(p)


\* --------------------------------------------- RexProBaseConnectionPool
GetFrame == [f |-> "get", pc |-> "qsize"]
\* popped: get() took the Connection from the idle queue
CreateConnectionFrame ==
    [k |-> 0, f |-> "create_connection", pc |-> "get", popped |-> FALSE]
CloseConnectionFrame(k, soft) ==
    [k |-> k, f |-> "close_connection", soft |-> soft, pc |-> "close"]
\* raised: the exception to re-raise after the finally clause
ConnectionFrame(body) ==
    [k |-> 0, f |-> "connection", pc |-> "create_connection", body |-> body,
     raised |-> NoExc]
CloseAllFrame == [k |-> 0, f |-> "close_all", pc |-> "empty"]

\* QUEUE_CLASS: put appends; get takes the item the backend's order gives
\* (FIFO or LIFO), here any position j
queue_put(q, k) == Append(q, k)
queue_item(q, j) == q[j]
queue_rest(q, j) == SubSeq(q, 1, j - 1) \o SubSeq(q, j + 1, Len(q))

\* the Connections of frames that are being constructed
Constructing ==
    UNION { {callers[p].stack[n].k :
               n \in {m \in DOMAIN callers[p].stack : callers[p].stack[m].f = "__init__"}}
            : p \in Callers }
Fresh == ConnIds \ (made \cup Constructing)

\* get: line 68, pool.qsize()
PoolQsize(p) ==
    /\ Running(p, "get", "qsize")
    /\ callers' = [callers EXCEPT ![p] =
         Goto(p, [Top(p) EXCEPT !.pc = IF Len(pool) # 0 THEN "pool.get"
                                       ELSE "_create_connection"])]
    /\ UNCHANGED <<cfg, conns, made, pool>>

\* pool.get() with a slip: the item is read and stays in the queue
PoolGetPeek(p) ==
    /\ Running(p, "get", "pool.get")
    /\ \E j \in 1..Len(pool) :
         callers' = [callers EXCEPT ![p] =
              [Finish(p, Top(p), NoExc, queue_item(pool, j))
                 EXCEPT !.held = queue_item(pool, j)]]
    /\ UNCHANGED <<cfg, conns, made, pool>>

\* get: line 69, pool.get() blocks while the queue is empty
PoolGet(p) ==
    /\ Running(p, "get", "pool.get")
    /\ \E j \in 1..Len(pool) :
         /\ pool' = queue_rest(pool, j)
         /\ callers' = [callers EXCEPT ![p] =
              [Finish(p, Top(p), NoExc, queue_item(pool, j))
                 EXCEPT !.held = queue_item(pool, j)]]
    /\ UNCHANGED <<cfg, conns, made>>

\* get: line 72 and _create_connection: CONN_CLASS(...)
PoolCreate(p) ==
    /\ Running(p, "get", "_create_connection")
    /\ Fresh # {}
    /\ LET k == CHOOSE n \in Fresh : \A m \in Fresh : n <= m IN
         callers' = [callers EXCEPT ![p] =
           Invoke(p, [Top(p) EXCEPT !.pc = "new_item"], InitFrame(k))]
    /\ UNCHANGED <<cfg, conns, made, pool>>

\* get: lines 73-75
PoolCreated(p) ==
    /\ Resumed(p, "get", "new_item")
    /\ callers' = [callers EXCEPT ![p] =
         [Finish(p, Top(p), Ret(p).exc, Ret(p).val) EXCEPT !.held = Ret(p).val]]
    /\ UNCHANGED <<cfg, conns, made, pool>>

\* create_connection: line 165
CreateConnection(p) ==
    /\ Running(p, "create_connection", "get")
    /\ callers' = [callers EXCEPT ![p] = Invoke(p, [Top(p) EXCEPT !.pc = "open"], GetFrame)]
    /\ UNCHANGED <<cfg, conns, made, pool>>

\* create_connection: line 166, conn.open(soft=conn._opened)
CreateConnectionOpen(p) ==
    /\ Resumed(p, "create_connection", "open")
    /\ LET k == Ret(p).val IN
         callers' = [callers EXCEPT ![p] =
           IF Ret(p).exc # NoExc THEN Finish(p, Top(p), Ret(p).exc, 0)
           ELSE Invoke(p, [Top(p) EXCEPT !.pc = "return", !.k = k,
                                         !.popped = (Ret(p).by.pc = "pool.get")],
                       OpenFrame(k, conns[k].opened))]
    /\ UNCHANGED <<cfg, conns, made, pool>>

\* create_connection: line 167; when open() raised, the Connection taken
\* from the pool is referenced by nobody
CreateConnectionReturn(p) ==
    /\ Resumed(p, "create_connection", "return")
    /\ IF Ret(p).exc # NoExc
         THEN /\ callers' = [callers EXCEPT ![p] =
                   [Finish(p, Top(p), Ret(p).exc, 0) EXCEPT !.held = 0]]
              /\ conns' = [conns EXCEPT ![Top(p).k] = Unreferenced]
         ELSE /\ callers' = [callers EXCEPT ![p] = Finish(p, Top(p), NoExc, Top(p).k)]
              /\ UNCHANGED conns
    /\ UNCHANGED <<cfg, made, pool>>

\* close_connection: lines 177-178
CloseConnection(p) ==
    /\ Running(p, "close_connection", "close")
    /\ LET fr == Top(p) IN
         IF conns[fr.k].opened
           THEN \E r \in close(conns[fr.k], fr.soft) :
                  /\ conns' = [conns EXCEPT ![fr.k] = Norm(r.c)]
                  /\ callers' = [callers EXCEPT ![p] =
                       IF r.exc # NoExc THEN Finish(p, fr, r.exc, 0)
                       ELSE Goto(p, [fr EXCEPT !.pc = "put"])]
           ELSE /\ callers' = [callers EXCEPT ![p] = Goto(p, [fr EXCEPT !.pc = "put"])]
                /\ UNCHANGED conns
    /\ UNCHANGED <<cfg, made, pool>>

\* close_connection: line 179, self.put(conn)
CloseConnectionPut(p) ==
    /\ Running(p, "close_connection", "put")
    /\ pool' = queue_put(pool, Top(p).k)
    /\ callers' = [callers EXCEPT ![p] = [Finish(p, Top(p), NoExc, 0) EXCEPT !.held = 0]]
    /\ UNCHANGED <<cfg, conns, made>>

\* connection(): line 112
Connection(p) ==
    /\ Running(p, "connection", "create_connection")
    /\ callers' = [callers EXCEPT ![p] =
         Invoke(p, [Top(p) EXCEPT !.pc = "transaction"], CreateConnectionFrame)]
    /\ UNCHANGED <<cfg, conns, made, pool>>

\* connection(): lines 113-118; a Connection object is never false
ConnectionTransaction(p) ==
    /\ Resumed(p, "connection", "transaction")
    /\ LET k == Ret(p).val IN
         callers' = [callers EXCEPT ![p] =
           IF Ret(p).exc # NoExc THEN Finish(p, Top(p), Ret(p).exc, 0)
           ELSE Invoke(p, [Top(p) EXCEPT !.pc = "finally", !.k = k],
                       TransactionFrame(k, Top(p).body))]
    /\ UNCHANGED <<cfg, conns, made, pool>>

\* connection(): lines 119-120, finally: close_connection(conn, soft=True)
ConnectionFinally(p) ==
    /\ Resumed(p, "connection", "finally")
    /\ callers' = [callers EXCEPT ![p] =
         Invoke(p, [Top(p) EXCEPT !.pc = "exit", !.raised = Ret(p).exc],
                CloseConnectionFrame(Top(p).k, TRUE))]
    /\ UNCHANGED <<cfg, conns, made, pool>>

\* connection(): the end of the finally clause; the scope's reference to the
\* Connection ends with the scope
ConnectionExit(p) ==
    /\ Resumed(p, "connection", "exit")
    /\ callers' = [callers EXCEPT ![p] =
         [Finish(p, Top(p), IF Ret(p).exc # NoExc THEN Ret(p).exc ELSE Top(p).raised, 0)
            EXCEPT !.held = 0]]
    /\ conns' = IF Ret(p).exc # NoExc THEN [conns EXCEPT ![Top(p).k] = Unreferenced]
                ELSE conns
    /\ UNCHANGED <<cfg, made, pool>>

\* close_all: line 87, while not self.pool.empty()
CloseAll(p) ==
    /\ Running(p, "close_all", "empty")
    /\ callers' = [callers EXCEPT ![p] =
         IF pool = <<>> THEN Finish(p, Top(p), NoExc, 0)
         ELSE Goto(p, [Top(p) EXCEPT !.pc = "get_nowait"])]
    /\ UNCHANGED <<cfg, conns, made, pool>>

\* close_all: line 88, get_nowait() raises Empty on an empty queue
CloseAllGet(p) ==
    /\ Running(p, "close_all", "get_nowait")
    /\ IF pool = <<>>
         THEN /\ callers' = [callers EXCEPT ![p] =
                   Finish(p, Top(p), Exc("Empty", "close_all"), 0)]
              /\ UNCHANGED pool
         ELSE \E j \in 1..Len(pool) :
                /\ pool' = queue_rest(pool, j)
                /\ callers' = [callers EXCEPT ![p] =
                     Goto(p, [Top(p) EXCEPT !.pc = "close", !.k = queue_item(pool, j)])]
    /\ UNCHANGED <<cfg, conns, made>>

\* close_all: lines 89-92, conn.close() with every exception swallowed
CloseAllClose(p) ==
    /\ Running(p, "close_all", "close")
    /\ LET fr == Top(p) IN
       \E r \in close(conns[fr.k], FALSE) :
         /\ conns' = [conns EXCEPT ![fr.k] = Unreferenced]
         /\ callers' = [callers EXCEPT ![p] =
              Goto(p, [fr EXCEPT !.pc = "empty", !.k = 0])]
    /\ UNCHANGED <<cfg, made, pool>>

\* the steps of the methods of the pool
PoolStep(p) ==
    \/ PoolQsize(p)
    \/ PoolGet(p)
    \/ PoolCreate(p)
    \/ PoolCreated(p)
    \/ CloseConnection(p)
    \/ CloseConnectionPut(p)
    \/ CloseAll(p)
    \/ CloseAllGet(p)
    \/ CloseAllClose(p)

\* the steps of create_connection and of the connection() scope
ScopeStep(p) ==
    \/ CreateConnection(p)
    \/ CreateConnectionOpen(p)
    \/ CreateConnectionReturn(p)
    \/ Connection(p)
    \/ ConnectionTransaction(p)
    \/ ConnectionFinally(p)
    \/ ConnectionExit(p)

\* ------------------------------------- a caller that uses one Connection
\* RexProBaseConnection(host, port, ...)
New(p, k) ==
    /\ Ready(p)
    /\ k \notin made
    /\ callers' = [callers EXCEPT ![p] = Enter(p, InitFrame(k))]
    /\ UNCHANGED <<cfg, conns, made, pool>>

\* a call of a method of Connection k
CallMethod(p, k, frame) ==
    /\ Ready(p)
    /\ k \in made
    /\ callers' = [callers EXCEPT ![p] = Enter(p, frame)]
    /\ UNCHANGED <<cfg, conns, made, pool>>

CallOpen(p, k) == \E soft \in BOOLEAN : CallMethod(p, k, OpenFrame(k, soft))
CallExecute(p, k) ==
    \E transaction \in BOOLEAN : CallMethod(p, k, ExecuteFrame(k, UserScript, transaction))
CallOpenTransaction(p, k) == CallMethod(p, k, OpenTransactionFrame(k))
CallCloseTransaction(p, k) ==
    \E success \in BOOLEAN : CallMethod(p, k, CloseTransactionFrame(k, success))
CallTransaction(p, k) == \E body \in Bodies : CallMethod(p, k, TransactionFrame(k, body))
CallClose(p, k) == \E soft \in BOOLEAN : Close(p, k, soft)

\* the caller has the outcome of its call and goes on
Return(p) ==
    /\ Stack(p) = <<>>
    /\ Ret(p) # NoRet
    /\ callers' = [callers EXCEPT ![p].ret = NoRet]
    /\ UNCHANGED <<cfg, conns, made, pool>>

NextConn ==
    \/ New(1, 1)
    \/ CallOpen(1, 1)
    \/ CallClose(1, 1)
    \/ CallExecute(1, 1)
    \/ CallOpenTransaction(1, 1)
    \/ CallCloseTransaction(1, 1)
    \/ TestConnection(1, 1)
    \/ CallTransaction(1, 1)
    \/ ConnectionStep(1)
    \/ Return(1)

\* One caller, one Connection, the calls of its API in any order
SpecConn == Init /\ [][NextConn]_vars

\* ------------------------------------------------ the callers of a pool
\* a call of a caller that holds no Connection
Acquire(p, frame) ==
    /\ Ready(p)
    /\ callers[p].held = 0
    /\ callers' = [callers EXCEPT ![p] = Enter(p, frame)]
    /\ UNCHANGED <<cfg, conns, made, pool>>

CallGet(p) == Acquire(p, GetFrame)
CallCreateConnection(p) == Acquire(p, CreateConnectionFrame)
CallConnection(p) == \E body \in Bodies : Acquire(p, ConnectionFrame(body))
CallCloseAll(p) == Acquire(p, CloseAllFrame)

\* put(conn): the caller gives back the Connection it holds
CallPut(p) ==
    /\ Ready(p)
    /\ callers[p].held # 0
    /\ pool' = queue_put(pool, callers[p].held)
    /\ callers' = [callers EXCEPT ![p].held = 0]
    /\ UNCHANGED <<cfg, conns, made>>

\* close_connection(conn, soft) of the Connection the caller holds
CallCloseConnection(p) ==
    /\ Ready(p)
    /\ callers[p].held # 0
    /\ \E soft \in BOOLEAN :
         callers' = [callers EXCEPT
                       ![p] = Enter(p, CloseConnectionFrame(callers[p].held, soft))]
    /\ UNCHANGED <<cfg, conns, made, pool>>

\* One caller and the pool: every method of the pool, one call at a time
NextScope ==
    \/ CallGet(1)
    \/ CallCreateConnection(1)
    \/ CallConnection(1)
    \/ CallCloseAll(1)
    \/ CallPut(1)
    \/ CallCloseConnection(1)
    \/ PoolStep(1)
    \/ ScopeStep(1)
    \/ ConnectionStep(1)
    \/ Return(1)

SpecScope == Init /\ [][NextScope]_vars

\* Concurrent callers of one pool, each in a cycle of acquire (get) and
\* release (put or close_connection); the pool is configured as documented,
\* with one host (str) and one port (int)
InitPool == Init /\ ~cfg.hostIsList /\ ~cfg.portIsList

NextPool ==
    \E p \in Callers :
        \/ CallGet(p)
        \/ CallPut(p)
        \/ CallCloseConnection(p)
        \/ PoolQsize(p)
        \/ PoolGet(p)
        \/ PoolCreate(p)
        \/ PoolCreated(p)
        \/ CloseConnection(p)
        \/ CloseConnectionPut(p)
        \/ Construct(p)
        \/ Constructed(p)
        \/ OpenAttempt(p)
        \/ Return(p)

SpecPool == InitPool /\ [][NextPool]_vars

\* Concurrent callers of one pool, one of which may shut the pool down with
\* close_all() while the others acquire (get) and release (put)
NextDrain ==
    \E p \in Callers :
        \/ CallGet(p)
        \/ CallPut(p)
        \/ CallCloseAll(p)
        \/ PoolQsize(p)
        \/ PoolGet(p)
        \/ PoolCreate(p)
        \/ PoolCreated(p)
        \/ CloseAll(p)
        \/ CloseAllGet(p)
        \/ CloseAllClose(p)
        \/ Construct(p)
        \/ Constructed(p)
        \/ OpenAttempt(p)
        \/ Return(p)

SpecDrain == InitPool /\ [][NextDrain]_vars

\* ================================================================= claims
\* the outcome of the call of caller p that just ended, and its Connection
Ended(p, f) == Ret(p).by.f = f
Conn(p) == conns[Ret(p).by.k]
\* a response to the session-close message was received
Answered(p) == Ret(p).exc.kind # "SocketFault"
Last(s) == s[Len(s)]
Count(q, k) == Cardinality({j \in DOMAIN q : q[j] = k})

\* C1: get() on an empty idle queue (the path through _create_connection)
\* either returns a Connection with opened true and a session_key, or raises
\* ConnectionFault.
C1_AcquireOpensOrFaults ==
    \A p \in Callers :
        (Ended(p, "get") /\ Ret(p).by.pc = "new_item") =>
            IF Ret(p).exc = NoExc
              THEN conns[Ret(p).val].opened /\ conns[Ret(p).val].session_key # None
            ELSE Ret(p).exc.kind = "ConnectionFault"

\* C2: open() raises ConnectionFault when CONNECTION_ATTEMPTS consecutive
\* connects fail; when two connects fail and the third connect and its
\* handshake succeed, open() returns with opened true and a session_key stored
\* by this call.
C2_OpenAfterConnectFailures ==
    \A p \in Callers :
        Ended(p, "open") =>
            LET log == Ret(p).by.log IN
            /\ (/\ Len(log) >= CONNECTION_ATTEMPTS
                /\ \A j \in 1..CONNECTION_ATTEMPTS : log[j] = "connect failed")
               => Ret(p).exc.kind = "ConnectionFault"
            /\ log = <<"connect failed", "connect failed", "session">>
               => /\ Ret(p).exc = NoExc
                  /\ Conn(p).opened
                  /\ Conn(p).session_key # None
                  /\ Conn(p).session_key = Conn(p).sessions

\* C3: no Connection is held by two callers at once, and a Connection a caller
\* holds is not in the idle queue (it cannot be handed out again).
C3_ExclusiveCheckout ==
    \A p \in Callers :
        callers[p].held # 0 =>
            /\ \A q \in Callers \ {p} : callers[q].held # callers[p].held
            /\ Count(pool, callers[p].held) = 0

\* C3 witness: a caller took a released Connection from the queue while
\* another caller holds a Connection
C3_Witness ==
    \E p \in Callers : \E q \in Callers \ {p} :
        /\ Ended(p, "get") /\ Ret(p).by.pc = "pool.get"
        /\ callers[p].held # 0
        /\ callers[q].held # 0

\* C4: a transaction scope whose body completes normally issues one
\* open_transaction and one close_transaction(True) and exits normally; a scope
\* whose body raises issues close_transaction(False) and raises the body's
\* fault.  Stated for the scopes in which no control script the scope sent
\* was answered with a fault (a call that failed sent nothing).
C4_ScopeBrackets ==
    \A p \in Callers :
        (/\ Ended(p, "transaction")
         /\ Ret(p).by.body # NoBody
         /\ \A j \in DOMAIN Ret(p).by.calls :
                Ret(p).by.calls[j].exc = NoExc \/ Ret(p).by.calls[j].sent = <<>>)
        => LET calls == Ret(p).by.calls
               body == Ret(p).by.body
           IN  /\ Len(calls) = 2
               /\ calls[1].call = "open_transaction" /\ calls[1].sent # <<>>
               /\ calls[2].call = "close_transaction" /\ calls[2].sent # <<>>
               /\ calls[2].arg = (body = NoExc)
               /\ Ret(p).exc = body

\* C5: when a connection() scope that acquired a Connection has ended, the
\* Connection is in the idle queue exactly once, on every exit path.
C5_ScopeReleases ==
    \A p \in Callers :
        (Ended(p, "connection") /\ Ret(p).by.k # 0) => Count(pool, Ret(p).by.k) = 1

\* the frames of caller p: those on its stack (positions 1..Len) and the one
\* of the call that just ended (position 0)
FrameAt(p, j) == IF j = 0 THEN Ret(p).by ELSE Stack(p)[j]

\* C6: every script request sent by an execute() call that was made with
\* transaction = True while in_transaction was true carries transaction = False,
\* on the first attempt and on every retry.
C6_NoNestedTransaction ==
    \A p \in Callers : \A j \in 0..Len(Stack(p)) :
        LET fr == FrameAt(p, j) IN
        (fr.f = "execute" /\ fr.arg /\ fr.entry) =>
            \A n \in DOMAIN fr.sent : ~fr.sent[n].tx

\* C6 witness: such a call has sent its request a second time, after a
\* failed attempt, a hard close and a reopen
C6_Witness ==
    \E p \in Callers :
        /\ Ended(p, "execute") /\ Ret(p).by.arg /\ Ret(p).by.entry
        /\ Len(Ret(p).by.sent) >= 2
        /\ Ret(p).exc = NoExc

\* C7: a close(soft=True) that received its response leaves the opened flag
\* as it was (true when it was true) and the socket the same object in the
\* same state; a close(soft=False) that received its response leaves opened
\* false.
C7_SoftKeepsHardClears ==
    \A p \in Callers :
        (Ended(p, "close") /\ Answered(p)) =>
            IF Ret(p).by.soft
              THEN /\ Conn(p).opened = Ret(p).by.pre.opened
                   /\ Ret(p).by.sameSocket
                   /\ Conn(p).conn = Ret(p).by.pre.conn
            ELSE ~Conn(p).opened

\* C7 witness: a soft close of an opened Connection was answered with an error
C7_Witness ==
    \E p \in Callers :
        /\ Ended(p, "close") /\ Ret(p).by.soft /\ Ret(p).by.pre.opened
        /\ Ret(p).exc.kind = "ServerFault"
        /\ Conn(p).opened

\* C8: after any call of close, however it ends, session_key is null and
\* in_transaction is false.
C8_CloseClearsAlways ==
    \A p \in Callers :
        Ended(p, "close") => Conn(p).session_key = None /\ ~Conn(p).in_transaction

\* C9: after a close(soft=False) that received its response the Connection
\* holds no socket.
C9_HardCloseDropsSocket ==
    \A p \in Callers :
        (Ended(p, "close") /\ ~Ret(p).by.soft /\ Answered(p)) => Conn(p).conn = NoSocket

C11_TransactionOnlyWhileOpened ==
    \A p \in Callers :
        Stack(p) = <<>> =>
            \A k \in made : conns[k].in_transaction => conns[k].opened

\* an endpoint draw of open(): the pass of caller p's open() that is about to
\* run connects (soft is false and attempts remain), and p takes the step
Draws(p) ==
    /\ Running(p, "open", "loop")
    /\ ~Top(p).soft
    /\ Top(p).i < CONNECTION_ATTEMPTS
    /\ callers'[p] # callers[p]

\* C12: at every endpoint draw of open(), for a host (a port) configured as
\* a list, the blacklist does not cover the candidates, the candidates that
\* are not blacklisted are not empty, and the endpoint drawn is a candidate
\* that was not blacklisted.
C12_DrawFromUnlisted ==
    [][\A p \in Callers :
         Draws(p) =>
           LET c == conns[Top(p).k]
               d == conns'[Top(p).k]
           IN  /\ c.hostIsList =>
                    /\ ~(SeqToSet(HostList) \subseteq c.host_blacklist)
                    /\ HostChoices(c) # {}
                    /\ d.current_host \in SeqToSet(HostList) \ c.host_blacklist
               /\ c.portIsList =>
                    /\ ~(SeqToSet(PortList) \subseteq c.port_blacklist)
                    /\ PortChoices(c) # {}
                    /\ d.current_port \in SeqToSet(PortList) \ c.port_blacklist]_vars

\* C12 witness: an open() on a host list failed to connect twice, which filled
\* and cleared the blacklist, and drew a third time
C12_Witness ==
    \E p \in Callers :
        /\ Ended(p, "open") /\ Conn(p).hostIsList /\ Conn(p).portIsList
        /\ Ret(p).by.log = <<"connect failed", "connect failed", "session">>

\* caller p takes the first step of an open_transaction() called while
\* in_transaction is true, or of a close_transaction() called while it is false
Misused(p) ==
    /\ \/ Running(p, "open_transaction", "check") /\ conns[Top(p).k].in_transaction
       \/ Running(p, "close_transaction", "check") /\ ~conns[Top(p).k].in_transaction
    /\ callers'[p] # callers[p]

\* C13: open_transaction() called while in_transaction is true, and
\* close_transaction() called while it is false, raise UsageFault, send no
\* message and change no field of the Connection.
C13_MisuseRaisesUntouched ==
    [][\A p \in Callers :
         Misused(p) =>
           /\ Len(callers'[p].stack) = Len(Stack(p)) - 1
           /\ callers'[p].ret.exc.kind = "UsageFault"
           /\ callers'[p].ret.by.sent = <<>>
           /\ conns' = conns]_vars

\* C13 witness: an open_transaction() inside a transaction has raised
C13_Witness ==
    \E p \in Callers :
        /\ Ended(p, "open_transaction")
        /\ Ret(p).exc.kind = "UsageFault"
        /\ Ret(p).by.sent = <<>>
        /\ Conn(p).in_transaction /\ Conn(p).opened /\ Conn(p).session_key # None

\* caller p's close_all() ends with this step
Drained(p) ==
    /\ Len(Stack(p)) = 1
    /\ Top(p).f = "close_all"
    /\ callers'[p].stack = <<>>

\* C14: close_all() never raises to its caller and ends with the idle queue
\* empty, whatever the closes of the Connections do and whatever other callers
\* acquire or release meanwhile.
C14_DrainsQuietly ==
    [][\A p \in Callers :
         Drained(p) => callers'[p].ret.exc = NoExc /\ pool' = <<>>]_vars

\* C15: a fault reaches the caller of execute() only after CONNECTION_ATTEMPTS
\* script requests were sent, and it is the fault of the failed attempt, not
\* one raised by the close() or open() of the retry path.
C15_FaultAfterAllAttempts ==
    \A p \in Callers :
        (Ended(p, "execute") /\ Ret(p).exc # NoExc) =>
            /\ Len(Ret(p).by.sent) = CONNECTION_ATTEMPTS
            /\ Ret(p).exc.src = "execute"

\* C16: test_connection() returns normally only when the first poll reported
\* the socket ready, and then no field changed and nothing was sent, or when
\* one of at most three reconnect steps polled ready and set up a session
\* (session_key non-null, in_transaction false); when all three steps failed
\* it raises ConnectionFault.
C16_TestedOrReconnected ==
    \A p \in Callers :
        Ended(p, "test_connection") =>
            IF Ret(p).exc = NoExc
              THEN \/ /\ Ret(p).by.steps = 0
                      /\ Conn(p) = Ret(p).by.pre
                      /\ Ret(p).by.sent = <<>>
                   \/ /\ Ret(p).by.steps \in 1..3
                      /\ Ret(p).by.sent # <<>>
                      /\ Last(Ret(p).by.sent) = SessionRequest
                      /\ Conn(p).session_key # None
                      /\ Conn(p).session_key # Ret(p).by.pre.session_key
                      /\ ~Conn(p).in_transaction
            ELSE /\ Ret(p).exc.kind = "ConnectionFault"
                 /\ Ret(p).by.steps = 3

\* C16 witness: the first reconnect step failed in its handshake and a later
\* step set up the session, on a Connection that was in a transaction
C16_Witness ==
    \E p \in Callers :
        /\ Ended(p, "test_connection") /\ Ret(p).exc = NoExc
        /\ Ret(p).by.steps >= 2
        /\ Len(Ret(p).by.sent) >= 2
        /\ Ret(p).by.pre.in_transaction
        /\ Conn(p).session_key # None

\* C17: an execute() call that returns normally leaves in_transaction as it
\* was when the call was made, also when it succeeded only after a fault, a
\* hard close, a reopen and a retry.
C17_ExecuteKeepsTransaction ==
    \A p \in Callers :
        (Ended(p, "execute") /\ Ret(p).exc = NoExc) =>
            Conn(p).in_transaction = Ret(p).by.entry

\* C18: a get() never waits for a release: no caller is at the pop of the
\* idle queue (pool.get(), which blocks on an empty queue) while the queue is
\* empty.
C18_AcquireNeverWaits ==
    \A p \in Callers :
        Running(p, "get", "pool.get") => pool # <<>>

\* C19: when create_connection() has popped a Connection from the idle queue,
\* it ends either handing that Connection to its caller or with the Connection
\* back in the idle queue, also when the re-open of the Connection raises.
C19_PoppedNotLost ==
    \A p \in Callers :
        (Ended(p, "create_connection") /\ Ret(p).by.popped) =>
            \/ Ret(p).exc = NoExc /\ Ret(p).val = Ret(p).by.k
            \/ Count(pool, Ret(p).by.k) = 1

\* an endpoint draw of open() that follows a fault on current_host: an
\* earlier pass of the same open() failed (connect or handshake), or the
\* open() is the one of execute()'s handler
DrawsAfterFault(p) ==
    /\ Draws(p)
    /\ conns[Top(p).k].hostIsList
    /\ \/ Top(p).log # <<>>
       \/ Len(Stack(p)) >= 2 /\ Stack(p)[Len(Stack(p)) - 1].f = "execute"

\* C20: for a host configured as a list of at least two members, an endpoint
\* draw that follows a fault on current_host draws a host other than the one
\* that just failed.
C20_DrawAvoidsFailed ==
    [][\A p \in Callers :
         DrawsAfterFault(p) =>
           conns'[Top(p).k].current_host # conns[Top(p).k].current_host]_vars

\* C20 as amended: the host drawn differs from the one that just failed
\* unless that failure filled the blacklist, which cleared it.
C20_DrawAvoidsFailedUnlessCleared ==
    [][\A p \in Callers :
         (DrawsAfterFault(p) /\ conns[Top(p).k].host_blacklist # {}) =>
           conns'[Top(p).k].current_host # conns[Top(p).k].current_host]_vars

\* C20 witness: an open() failed to connect to one host of the list and set
\* up its session on the other, the failed host still blacklisted
C20_Witness ==
    \E p \in Callers :
        /\ Ended(p, "open") /\ Conn(p).hostIsList
        /\ Ret(p).by.log = <<"connect failed", "session">>
        /\ Conn(p).host_blacklist # {}
        /\ Conn(p).current_host \notin Conn(p).host_blacklist

====
